---- MODULE Spec2Model ----
(***************************************************************************)
(* Model of torba/basenetwork.py: ClientSession and BaseNetwork.           *)
(*                                                                         *)
(* The asyncio event loop is modelled by its FIFO queue of scheduled       *)
(* callbacks (ready).  Network events (a connect completing, data or EOF   *)
(* arriving) and caller tasks (start, stop, rpc, listen) happen at any     *)
(* time; what they schedule is run in the order it was scheduled.          *)
(***************************************************************************)
EXTENDS Naturals, Sequences, FiniteSets, TLC

\* ---- bounds of the model
MaxServers == 2
MaxSessions == 3
MaxRpc == 2
MaxPush == 2
MaxConsumers == 2
MaxLoops == 2

\* self.client = None (line 33) is modelled by session id 0
None == 0

VARIABLES
    pool,       \* config['default_servers']: the servers are 1..pool
    mode,       \* per server, what the network does there: "any" (anything),
                \* "down" (connects fail), "up" (no failure), "rejects" (the
                \* version check may fail, the peer never closes), "drops"
                \* (the peer may close, the version check never fails)
    running,    \* BaseNetwork.running
    client,     \* BaseNetwork.client: a session id, or None
    sess,       \* every ClientSession ever constructed, by id
    loops,      \* every start() coroutine: its position in the code
    stopPc,     \* the latest stop() call: "idle" (none yet), "closing", "returned"
    requests,   \* every rpc() call of a facade caller: its session and outcome
    ready,      \* the event loop's queue of scheduled callbacks, oldest first
    consumers,  \* every listener attached to on_connected, on_header, on_status
    added,      \* per channel, the events its StreamController was given, in order
    arrived,    \* per method name, the pushes in the order the network delivered them
    handled,    \* the pushes given to handle_request, in order
    errors      \* number of exceptions raised by handle_request

vars == <<pool, mode, running, client, sess, loops, stopPc, requests,
          ready, consumers, added, arrived, handled, errors>>

Sids == 1..Len(sess)
Lids == 1..Len(loops)
Rids == 1..Len(requests)

\* a start() coroutine: where it is (pc), the pool entry of its iteration
\* (pos), the session that iteration constructed (sid), and its
\* server.version request: the session it was sent on (vsid) and the reply
\* that has arrived but is not processed yet (vans)
Loop(pc, pos, sid) ==
    [pc |-> pc, pos |-> pos, sid |-> sid, vsid |-> None, vans |-> "none"]

\* the method names of the two push topics (lines 46-47) and one that is not
\* registered
HeaderTopic == "blockchain.headers.subscribe"
StatusTopic == "blockchain.address.subscribe"
UnknownMethod == "blockchain.unregistered"
Methods == {HeaderTopic, StatusTopic, UnknownMethod}

\* the three streams of BaseNetwork.__init__ (lines 36-43)
Channels == {"on_connected", "on_header", "on_status"}

\* BaseNetwork.subscription_controllers (lines 45-48)
subscription_controllers ==
    [m \in {HeaderTopic, StatusTopic} |->
        IF m = HeaderTopic THEN "on_header" ELSE "on_status"]

\* a scheduled callback: k is what runs, id whose, m and v a push's method
\* and payload
Handle(k, id, m, v) == [k |-> k, id |-> id, m |-> m, v |-> v]
LoopWake(l) == Handle("loop", l, "", 0)
StopWake == Handle("stop", 0, "", 0)

\* ClientSession.__init__ (lines 14-18): no transport yet, nobody listening
\* on on_disconnected
ClientSession(server) ==
    [server |-> server, transport |-> "none", made |-> FALSE,
     fired |-> 0, sent |-> 0, waiters |-> <<>>]

\* aiorpcx SessionBase.is_closing: not self.transport or transport.is_closing().
\* A transport is "none" before connection_made, then "open", "eof" once the
\* peer has closed and the event loop has not read that yet, "closing" once
\* close() was called on it, "lost" after connection_lost.
is_closing(s) == sess[s].transport \notin {"open", "eof"}

\* is_connected without the is_closing() test
is_connected_NoClosing == client # None

\* BaseNetwork.is_connected (lines 73-75)
is_connected == client # None /\ ~is_closing(client)

\* an iteration that does not advance
NextServer_Same(pos) == pos

\* cycle(default_servers): the entry after pos
NextServer(pos) == (pos % pool) + 1

\* a facade caller's rpc() call: sid = None when it raised ConnectionError
\* instead of sending
Request(sid, state) == [sid |-> sid, state |-> state]

\* BaseNetwork.rpc (lines 77-81), the requests after the call: sent on the
\* current session when is_connected, else ConnectionError is raised
rpc_requests ==
    IF is_connected
    THEN Append(requests, Request(client, "pending"))
    ELSE Append(requests, Request(None, "unavailable"))

\* rpc that sends whenever there is a client, closing or not
rpc_sess_NoCheck ==
    IF client # None
    THEN [sess EXCEPT ![client].sent = @ + 1]
    ELSE sess

\* BaseNetwork.rpc (lines 77-81), the sessions after the call: send_request
\* writes one message to the current session's transport
rpc_sess ==
    IF is_connected
    THEN [sess EXCEPT ![client].sent = @ + 1]
    ELSE sess

\* StreamController.add: every listener attached now gets the event, in order
StreamAdd(cons, chan, v) ==
    [c \in DOMAIN cons |->
        IF cons[c].chan = chan
        THEN [cons[c] EXCEPT !.log = Append(@, v)]
        ELSE cons[c]]

\* BaseNetwork.__init__ (lines 31-48)
Fresh ==
    /\ running = FALSE
    /\ client = None
    /\ sess = <<>>
    /\ loops = <<>>
    /\ stopPc = "idle"
    /\ requests = <<>>
    /\ ready = <<>>
    /\ consumers = <<>>
    /\ added = [c \in Channels |-> <<>>]
    /\ arrived = [m \in Methods |-> <<>>]
    /\ handled = <<>>
    /\ errors = 0

\* any pool, any network
Init ==
    /\ pool \in 1..MaxServers
    /\ mode = [a \in 1..pool |-> "any"]
    /\ Fresh

\* one server, any network
InitOne ==
    /\ pool = 1
    /\ mode = [a \in 1..pool |-> "any"]
    /\ Fresh

\* one server, which either rejects the version check or drops connections
InitSub ==
    /\ pool = 1
    /\ mode \in [1..pool -> {"rejects", "drops"}]
    /\ Fresh

\* the servers before some entry B are down, B is up
InitC10 ==
    /\ pool \in 1..MaxServers
    /\ \E b \in 1..pool :
          mode = [a \in 1..pool |->
                    IF a < b THEN "down" ELSE IF a = b THEN "up" ELSE "any"]
    /\ Fresh

\* ---- BaseNetwork.start

\* a loop that returns after a failed attempt, stopped or not
AfterAttempt_Return(l, cap) ==
    /\ loops' = [loops EXCEPT ![l].pc = "done"]
    /\ UNCHANGED <<client, sess>>

\* a loop that makes its next attempt with the session of the last one
AfterAttempt_Reuse(l, cap) ==
    IF ~running
    THEN /\ loops' = [loops EXCEPT ![l].pc = "done"]
         /\ UNCHANGED <<client, sess>>
    ELSE /\ loops' = [loops EXCEPT ![l] = Loop("connect", NextServer(loops[l].pos),
                                                loops[l].sid)]
         /\ UNCHANGED <<client, sess>>

\* lines 63-64, and for the next server lines 52-56 up to the await:
\* return when stopped, else a new ClientSession becomes self.client and
\* its create_connection is awaited.  The model stops a loop that would
\* construct more than cap sessions.
AfterAttempt(l, cap) ==
    IF ~running
    THEN /\ loops' = [loops EXCEPT ![l].pc = "done"]
         /\ UNCHANGED <<client, sess>>
    ELSE IF Len(sess) >= cap
    THEN /\ loops' = [loops EXCEPT ![l].pc = "capped"]
         /\ UNCHANGED <<client, sess>>
    ELSE LET a == NextServer(loops[l].pos)
             s == Len(sess) + 1
         IN /\ sess' = Append(sess, ClientSession(a))
            /\ client' = s
            /\ loops' = [loops EXCEPT ![l] = Loop("connect", a, s)]

\* start() is called: lines 51-56 up to the await
Start ==
    /\ loops = <<>>
    /\ running' = TRUE
    /\ sess' = Append(sess, ClientSession(1))
    /\ client' = Len(sess) + 1
    /\ loops' = Append(loops, Loop("connect", 1, Len(sess) + 1))
    /\ stopPc' = "idle"
    /\ UNCHANGED <<pool, mode, requests, ready, consumers, added, arrived, handled, errors>>

\* start() is called again after stop() has returned: lines 51-56 up to the
\* await, whatever the loop of the earlier call is doing
Restart ==
    /\ loops # <<>> /\ Len(loops) < MaxLoops
    /\ stopPc = "returned"
    /\ Len(sess) < MaxSessions
    /\ running' = TRUE
    /\ sess' = Append(sess, ClientSession(1))
    /\ client' = Len(sess) + 1
    /\ loops' = Append(loops, Loop("connect", 1, Len(sess) + 1))
    /\ stopPc' = "idle"
    /\ UNCHANGED <<pool, mode, requests, ready, consumers, added, arrived, handled, errors>>

\* the network: create_connection succeeds; connection_made sets the
\* transport and the awaiting start() is scheduled
ConnectOk(l) ==
    /\ loops[l].pc = "connect"
    /\ mode[loops[l].pos] # "down"
    /\ sess' = [sess EXCEPT ![loops[l].sid].transport = "open",
                            ![loops[l].sid].made = TRUE]
    /\ loops' = [loops EXCEPT ![l].pc = "connect_ok"]
    /\ ready' = Append(ready, LoopWake(l))
    /\ UNCHANGED <<pool, mode, running, client, stopPc, requests,
                   consumers, added, arrived, handled, errors>>

\* the network: create_connection raises
ConnectFail(l) ==
    /\ loops[l].pc = "connect"
    /\ mode[loops[l].pos] # "up"
    /\ loops' = [loops EXCEPT ![l].pc = "connect_err"]
    /\ ready' = Append(ready, LoopWake(l))
    /\ UNCHANGED <<pool, mode, running, client, sess, stopPc, requests,
                   consumers, added, arrived, handled, errors>>

\* start() resumes after create_connection: line 57, ensure_server_version
\* goes through rpc (lines 77-84), or the except clause and lines 63-64
ResumeConnect(l, cap) ==
    /\ ready # <<>> /\ Head(ready) = LoopWake(l)
    /\ loops[l].pc \in {"connect_ok", "connect_err"}
    /\ ready' = Tail(ready)
    /\ IF loops[l].pc = "connect_ok" /\ is_connected
       THEN /\ sess' = rpc_sess
            /\ loops' = [loops EXCEPT ![l].pc = "version", ![l].vsid = client]
            /\ UNCHANGED client
       ELSE AfterAttempt(l, cap)
    /\ UNCHANGED <<pool, mode, running, stopPc, requests, consumers,
                   added, arrived, handled, errors>>

\* start() resumes after the version check: lines 58-60 (the connected event,
\* then a listener on the current session's on_disconnected), or the except
\* clause and lines 63-64
ResumeVersion(l, cap) ==
    /\ ready # <<>> /\ Head(ready) = LoopWake(l)
    /\ loops[l].pc \in {"version_ok", "version_err"}
    /\ ready' = Tail(ready)
    /\ IF loops[l].pc = "version_ok"
       THEN /\ added' = [added EXCEPT !["on_connected"] = Append(@, TRUE)]
            /\ consumers' = StreamAdd(consumers, "on_connected", TRUE)
            /\ sess' = [sess EXCEPT ![client].waiters = Append(@, LoopWake(l))]
            /\ loops' = [loops EXCEPT ![l].pc = "wait"]
            /\ UNCHANGED client
       ELSE /\ AfterAttempt(l, cap)
            /\ UNCHANGED <<added, consumers>>
    /\ UNCHANGED <<pool, mode, running, stopPc, requests, arrived,
                   handled, errors>>

\* start() resumes after on_disconnected.first: lines 63-64
ResumeWait(l, cap) ==
    /\ ready # <<>> /\ Head(ready) = LoopWake(l)
    /\ loops[l].pc = "woken"
    /\ ready' = Tail(ready)
    /\ AfterAttempt(l, cap)
    /\ UNCHANGED <<pool, mode, running, stopPc, requests, consumers,
                   added, arrived, handled, errors>>

\* ---- BaseNetwork.stop

\* stop that closes the session without listening for its disconnection
Stop_NoListener ==
    /\ stopPc # "closing"
    /\ running' = FALSE
    /\ IF is_connected
       THEN /\ sess' = [sess EXCEPT ![client].transport = "closing"]
            /\ ready' = Append(ready, Handle("lost", client, "", 0))
            /\ stopPc' = "closing"
       ELSE /\ stopPc' = "returned"
            /\ UNCHANGED <<sess, ready>>
    /\ UNCHANGED <<pool, mode, client, loops, requests, consumers, added, arrived, handled, errors>>

\* stop() is called: lines 67-70 up to the await; close() starts closing the
\* transport, whose connection_lost the event loop then schedules
Stop ==
    /\ stopPc # "closing"
    /\ running' = FALSE
    /\ IF is_connected
       THEN /\ sess' = [sess EXCEPT ![client].waiters = Append(@, StopWake),
                                    ![client].transport = "closing"]
            /\ ready' = Append(ready, Handle("lost", client, "", 0))
            /\ stopPc' = "closing"
       ELSE /\ stopPc' = "returned"
            /\ UNCHANGED <<sess, ready>>
    /\ UNCHANGED <<pool, mode, client, loops, requests, consumers, added, arrived, handled, errors>>

\* stop() resumes after close() and the disconnected future: it returns
StopReturn ==
    /\ ready # <<>> /\ Head(ready) = StopWake
    /\ stopPc = "closing"
    /\ ready' = Tail(ready)
    /\ stopPc' = "returned"
    /\ UNCHANGED <<pool, mode, running, client, sess, loops, requests,
                   consumers, added, arrived, handled, errors>>

\* ---- ClientSession

\* the network: the peer closes the connection; the transport's read
\* callback is scheduled
RemoteClose(s) ==
    /\ sess[s].transport = "open"
    /\ mode[sess[s].server] \in {"any", "drops"}
    /\ sess' = [sess EXCEPT ![s].transport = "eof"]
    /\ ready' = Append(ready, Handle("eof", s, "", 0))
    /\ UNCHANGED <<pool, mode, running, client, loops, stopPc, requests,
                   consumers, added, arrived, handled, errors>>

\* the transport reads the end of the stream: it closes itself and its
\* connection_lost is scheduled, unless close() was called meanwhile
ReadEof(s) ==
    /\ ready # <<>> /\ Head(ready) = Handle("eof", s, "", 0)
    /\ IF sess[s].transport = "eof"
       THEN /\ sess' = [sess EXCEPT ![s].transport = "closing"]
            /\ ready' = Append(Tail(ready), Handle("lost", s, "", 0))
       ELSE /\ ready' = Tail(ready)
            /\ UNCHANGED sess
    /\ UNCHANGED <<pool, mode, running, client, loops, stopPc, requests,
                   consumers, added, arrived, handled, errors>>

\* the loops whose pending server.version request was sent on session s
VersionOwners(s) == {l \in Lids : loops[l].pc = "version" /\ loops[l].vsid = s}

\* the wake-ups of a set of loops, lowest first
RECURSIVE WakeAll(_)
WakeAll(ls) ==
    IF ls = {} THEN <<>>
    ELSE LET l == CHOOSE x \in ls : \A y \in ls : x <= y
         IN <<LoopWake(l)>> \o WakeAll(ls \ {l})

\* the loops among a sequence of wake-ups
LoopsOf(ws) == {ws[i].id : i \in {j \in DOMAIN ws : ws[j].k = "loop"}}

\* connection_lost without the call of the base class's: the pending
\* requests are left alone
super_connection_lost_NoCancel(s) ==
    /\ UNCHANGED requests
    /\ sess' = [sess EXCEPT ![s].transport = "lost",
                            ![s].fired = @ + 1,
                            ![s].waiters = <<>>]

\* the base class's connection_lost (line 25): the transport is dropped and
\* every request pending on the session fails
super_connection_lost(s) ==
    /\ requests' = [r \in Rids |->
                      IF requests[r].sid = s /\ requests[r].state = "pending"
                      THEN [requests[r] EXCEPT !.state = "lost"]
                      ELSE requests[r]]
    /\ sess' = [sess EXCEPT ![s].transport = "lost",
                            ![s].fired = @ + 1,
                            ![s].waiters = <<>>]

\* ClientSession.connection_lost (lines 24-26): the base class's, then
\* on_disconnected fires for the listeners attached to it
connection_lost(s) ==
    /\ ready # <<>> /\ Head(ready) = Handle("lost", s, "", 0)
    /\ super_connection_lost(s)
    /\ LET cancelled == VersionOwners(s)
           woken == LoopsOf(sess[s].waiters)
       IN /\ loops' = [l \in Lids |->
                            IF l \in cancelled THEN [loops[l] EXCEPT !.pc = "version_err"]
                            ELSE IF l \in woken /\ loops[l].pc = "wait"
                            THEN [loops[l] EXCEPT !.pc = "woken"]
                            ELSE loops[l]]
          /\ ready' = Tail(ready) \o WakeAll(cancelled) \o sess[s].waiters
    /\ UNCHANGED <<pool, mode, running, client, stopPc, consumers,
                   added, arrived, handled, errors>>

\* the network: the server's reply to loop l's server.version request
\* arrives on its session (a result when ok, an error otherwise) and is
\* queued for processing
VersionReply(l, ok) ==
    /\ loops[l].pc = "version"
    /\ loops[l].vans = "none"
    /\ sess[loops[l].vsid].transport = "open"
    /\ ok \/ mode[sess[loops[l].vsid].server] \in {"any", "rejects"}
    /\ loops' = [loops EXCEPT ![l].vans = IF ok THEN "ok" ELSE "error"]
    /\ ready' = Append(ready, Handle("reply", l, "", 0))
    /\ UNCHANGED <<pool, mode, running, client, sess, stopPc, requests,
                   consumers, added, arrived, handled, errors>>

\* the session processes the queued reply: the request resolves and the
\* start() awaiting it is scheduled
ProcessReply(l) ==
    /\ ready # <<>> /\ Head(ready) = Handle("reply", l, "", 0)
    /\ loops[l].pc = "version"
    /\ loops' = [loops EXCEPT ![l].pc =
                    IF loops[l].vans = "ok" THEN "version_ok" ELSE "version_err"]
    /\ ready' = Append(Tail(ready), LoopWake(l))
    /\ UNCHANGED <<pool, mode, running, client, sess, stopPc, requests,
                   consumers, added, arrived, handled, errors>>

\* a session that closes itself when a request is answered with an error
Reply_Closes(r, ok) ==
    /\ requests[r].state = "pending"
    /\ sess[requests[r].sid].transport \in {"open", "eof", "closing"}
    /\ requests' = [requests EXCEPT ![r].state = IF ok THEN "ok" ELSE "error"]
    /\ IF ok \/ sess[requests[r].sid].transport = "closing"
       THEN UNCHANGED <<sess, ready>>
       ELSE /\ sess' = [sess EXCEPT ![requests[r].sid].transport = "closing"]
            /\ ready' = Append(ready, Handle("lost", requests[r].sid, "", 0))
    /\ UNCHANGED <<pool, mode, running, client, loops, stopPc,
                   consumers, added, arrived, handled, errors>>

\* the network: the server's reply to a caller's pending request r arrives
\* and is processed, before the session is lost
Reply(r, ok) ==
    /\ requests[r].state = "pending"
    /\ sess[requests[r].sid].transport \in {"open", "eof", "closing"}
    /\ requests' = [requests EXCEPT ![r].state = IF ok THEN "ok" ELSE "error"]
    /\ UNCHANGED <<pool, mode, running, client, sess, loops, stopPc, ready,
                   consumers, added, arrived, handled, errors>>

\* ---- the facade

\* a caller calls rpc, directly or through broadcast, get_history,
\* get_transaction, get_merkle, get_headers, subscribe_headers,
\* subscribe_address (lines 77-105)
Rpc ==
    /\ Len(requests) < MaxRpc
    /\ requests' = rpc_requests
    /\ sess' = rpc_sess
    /\ UNCHANGED <<pool, mode, running, client, loops, stopPc, ready,
                   consumers, added, arrived, handled, errors>>

\* ---- push notifications

\* the network: the server pushes a notification for method m on session s;
\* it is queued for processing.  Payloads are numbered in arrival order.
Push(s, m) ==
    /\ sess[s].transport = "open"
    /\ LET v == Len(arrived[HeaderTopic]) + Len(arrived[StatusTopic])
                + Len(arrived[UnknownMethod]) + 1
       IN /\ v <= MaxPush
          /\ arrived' = [arrived EXCEPT ![m] = Append(@, v)]
          /\ ready' = Append(ready, Handle("push", s, m, v))
    /\ UNCHANGED <<pool, mode, running, client, sess, loops, stopPc,
                   requests, consumers, added, handled, errors>>

\* handle_request that looks the controller up under the other topic
handle_request_Swapped(m, v) ==
    IF m \in DOMAIN subscription_controllers
    THEN LET chan == IF m = HeaderTopic THEN "on_status" ELSE "on_header"
         IN /\ added' = [added EXCEPT ![chan] = Append(@, v)]
            /\ consumers' = StreamAdd(consumers, chan, v)
            /\ UNCHANGED errors
    ELSE /\ errors' = errors + 1
         /\ UNCHANGED <<added, consumers>>

\* handle_request that gives the payload to both topics' controllers
handle_request_Both(m, v) ==
    IF m \in DOMAIN subscription_controllers
    THEN /\ added' = [added EXCEPT !["on_header"] = Append(@, v),
                                   !["on_status"] = Append(@, v)]
         /\ consumers' = StreamAdd(StreamAdd(consumers, "on_header", v), "on_status", v)
         /\ UNCHANGED errors
    ELSE /\ errors' = errors + 1
         /\ UNCHANGED <<added, consumers>>

\* ClientSession.handle_request (lines 20-22): the controller registered for
\* the method is given the payload; the lookup raises KeyError for a method
\* that is not registered
handle_request(m, v) ==
    IF m \in DOMAIN subscription_controllers
    THEN /\ added' = [added EXCEPT ![subscription_controllers[m]] = Append(@, v)]
         /\ consumers' = StreamAdd(consumers, subscription_controllers[m], v)
         /\ UNCHANGED errors
    ELSE /\ errors' = errors + 1
         /\ UNCHANGED <<added, consumers>>

\* the session processes a queued notification through handle_request,
\* unless the session was lost meanwhile
Dispatch(s, m, v) ==
    /\ ready # <<>> /\ Head(ready) = Handle("push", s, m, v)
    /\ ready' = Tail(ready)
    /\ IF sess[s].transport = "lost"
       THEN UNCHANGED <<added, consumers, handled, errors>>
       ELSE /\ handled' = Append(handled, v)
            /\ handle_request(m, v)
    /\ UNCHANGED <<pool, mode, running, client, sess, loops, stopPc,
                   requests, arrived>>

\* a stream that replays what it was given to a new listener
Listen_Replay(chan) ==
    /\ Len(consumers) < MaxConsumers
    /\ consumers' = Append(consumers,
                           [chan |-> chan, at |-> Len(handled), log |-> added[chan]])
    /\ UNCHANGED <<pool, mode, running, client, sess, loops, stopPc,
                   requests, ready, added, arrived, handled, errors>>

\* a consumer attaches a listener to one of the three streams
Listen(chan) ==
    /\ Len(consumers) < MaxConsumers
    /\ consumers' = Append(consumers,
                           [chan |-> chan, at |-> Len(handled), log |-> <<>>])
    /\ UNCHANGED <<pool, mode, running, client, sess, loops, stopPc,
                   requests, ready, added, arrived, handled, errors>>

\* ---- specifications

\* the connection lifecycle
Next ==
    \/ Start
    \/ Stop
    \/ StopReturn
    \/ \E l \in Lids : ConnectOk(l)
    \/ \E l \in Lids : ConnectFail(l)
    \/ \E l \in Lids : ResumeConnect(l, MaxSessions)
    \/ \E l \in Lids : ResumeVersion(l, MaxSessions)
    \/ \E l \in Lids : ResumeWait(l, MaxSessions)
    \/ \E s \in Sids : RemoteClose(s)
    \/ \E s \in Sids : ReadEof(s)
    \/ \E s \in Sids : connection_lost(s)
    \/ \E l \in Lids, ok \in BOOLEAN : VersionReply(l, ok)
    \/ \E l \in Lids : ProcessReply(l)

Spec == Init /\ [][Next]_vars

\* the event loop runs the oldest scheduled callback
RunReady ==
    \/ StopReturn
    \/ \E l \in Lids : ResumeConnect(l, MaxSessions)
    \/ \E l \in Lids : ResumeVersion(l, MaxSessions)
    \/ \E l \in Lids : ResumeWait(l, MaxSessions)
    \/ \E s \in Sids : ReadEof(s)
    \/ \E s \in Sids : connection_lost(s)
    \/ \E l \in Lids : ProcessReply(l)

\* the connection lifecycle when start() is called, the event loop keeps
\* running, every create_connection ends, and every connection is closed by
\* its peer in the end: no attempt succeeds for ever
SpecRetry ==
    /\ Init /\ [][Next]_vars
    /\ WF_vars(Start)
    /\ WF_vars(RunReady)
    /\ WF_vars(\E l \in Lids : ConnectOk(l) \/ ConnectFail(l))
    /\ WF_vars(\E s \in Sids : RemoteClose(s))

\* the connection lifecycle when start() is called, the event loop keeps
\* running, every create_connection ends and the server answers the version
\* check; a peer may keep its connection open for ever
SpecStop ==
    /\ Init /\ [][Next]_vars
    /\ WF_vars(Start)
    /\ WF_vars(RunReady)
    /\ WF_vars(\E l \in Lids : ConnectOk(l) \/ ConnectFail(l))
    /\ WF_vars(\E l \in Lids, ok \in BOOLEAN : VersionReply(l, ok))

\* the specifications with callers or consumers construct one session less
SubSessions == MaxSessions - 1

\* the connection lifecycle and the facade
NextRpc ==
    \/ Start
    \/ Stop
    \/ StopReturn
    \/ Rpc
    \/ \E l \in Lids : ConnectOk(l)
    \/ \E l \in Lids : ConnectFail(l)
    \/ \E l \in Lids : ResumeConnect(l, SubSessions)
    \/ \E l \in Lids : ResumeVersion(l, SubSessions)
    \/ \E l \in Lids : ResumeWait(l, SubSessions)
    \/ \E s \in Sids : RemoteClose(s)
    \/ \E s \in Sids : ReadEof(s)
    \/ \E s \in Sids : connection_lost(s)
    \/ \E l \in Lids, ok \in BOOLEAN : VersionReply(l, ok)
    \/ \E l \in Lids : ProcessReply(l)
    \/ \E r \in Rids, ok \in BOOLEAN : Reply(r, ok)

SpecRpc == InitOne /\ [][NextRpc]_vars

\* the connection lifecycle without stop(), the push notifications, and
\* consumers of the two topics' streams
NextSub ==
    \/ Start
    \/ \E l \in Lids : ConnectOk(l)
    \/ \E l \in Lids : ResumeConnect(l, SubSessions)
    \/ \E l \in Lids : ResumeVersion(l, SubSessions)
    \/ \E l \in Lids : ResumeWait(l, SubSessions)
    \/ \E s \in Sids : RemoteClose(s)
    \/ \E s \in Sids : ReadEof(s)
    \/ \E s \in Sids : connection_lost(s)
    \/ \E l \in Lids, ok \in BOOLEAN : VersionReply(l, ok)
    \/ \E l \in Lids : ProcessReply(l)
    \/ \E s \in Sids, m \in Methods : Push(s, m)
    \/ \E s \in Sids, m \in Methods, v \in 1..MaxPush : Dispatch(s, m, v)
    \/ \E m \in DOMAIN subscription_controllers : Listen(subscription_controllers[m])

SpecSub == InitSub /\ [][NextSub]_vars

\* the failover scenario: nobody stops the loop, no peer closes
NextC10 ==
    \/ Start
    \/ Rpc
    \/ \E l \in Lids : ConnectOk(l)
    \/ \E l \in Lids : ConnectFail(l)
    \/ \E l \in Lids : ResumeConnect(l, MaxSessions)
    \/ \E l \in Lids : ResumeVersion(l, MaxSessions)
    \/ \E l \in Lids, ok \in BOOLEAN : VersionReply(l, ok)
    \/ \E l \in Lids : ProcessReply(l)
    \/ \E r \in Rids, ok \in BOOLEAN : Reply(r, ok)
    \/ Listen("on_connected")

\* the scenario when start() is called, the event loop keeps running, every
\* create_connection ends and the server answers the version check
SpecC10 ==
    /\ InitC10 /\ [][NextC10]_vars
    /\ WF_vars(Start)
    /\ WF_vars(\E l \in Lids : ResumeConnect(l, MaxSessions))
    /\ WF_vars(\E l \in Lids : ResumeVersion(l, MaxSessions))
    /\ WF_vars(\E l \in Lids : ProcessReply(l))
    /\ WF_vars(\E l \in Lids : ConnectOk(l) \/ ConnectFail(l))
    /\ WF_vars(\E l \in Lids, ok \in BOOLEAN : VersionReply(l, ok))

\* the connection lifecycle without stop(), and facade callers whose
\* requests are not answered
NextC11 ==
    \/ Start
    \/ Rpc
    \/ \E l \in Lids : ConnectOk(l)
    \/ \E l \in Lids : ConnectFail(l)
    \/ \E l \in Lids : ResumeConnect(l, MaxSessions)
    \/ \E l \in Lids : ResumeVersion(l, MaxSessions)
    \/ \E l \in Lids : ResumeWait(l, MaxSessions)
    \/ \E s \in Sids : RemoteClose(s)
    \/ \E s \in Sids : ReadEof(s)
    \/ \E s \in Sids : connection_lost(s)
    \/ \E l \in Lids, ok \in BOOLEAN : VersionReply(l, ok)
    \/ \E l \in Lids : ProcessReply(l)

SpecC11 == Init /\ [][NextC11]_vars

\* the connection lifecycle with start() called again after stop()
NextRestart ==
    \/ Next
    \/ Restart

SpecRestart == InitOne /\ [][NextRestart]_vars

\* ---- the claims

\* the sessions whose transport is established and not closing
OpenSessions == {s \in Sids : sess[s].transport \in {"open", "eof"}}

\* the server.version check has succeeded on session s
Verified(s) ==
    \E l \in Lids : /\ loops[l].vsid = s
                    /\ loops[l].vans = "ok"
                    /\ loops[l].pc # "version"

\* state Connected: connect and the version check have both succeeded on the
\* current session and its disconnect notification has not fired
Connected == client # None /\ Verified(client) /\ sess[client].fired = 0

\* number of messages written to all transports
RECURSIVE SentUpTo(_)
SentUpTo(n) == IF n = 0 THEN 0 ELSE sess[n].sent + SentUpTo(n - 1)
TotalSent == SentUpTo(Len(sess))

\* C1: at most one session has an open transport, and it is the current
\* one: every session of an earlier iteration is closed when the next one is
\* created.
C1_OnlyCurrentOpen == \A s \in OpenSessions : s = client /\ Cardinality(OpenSessions) <= 1

\* C2: once stop() has returned, is_connected is false and no session has an
\* open transport.
C2_StoppedMeansClosed == stopPc = "returned" => (~is_connected /\ OpenSessions = {})

\* C3: a facade call made while is_connected is false records the
\* connection-unavailable error, writes to no transport and changes nothing
\* else; made while is_connected is true it writes exactly one request, to
\* the current session; and no step writes to a transport unless
\* is_connected.
C3_RpcFailFast ==
    [][/\ Len(requests') = Len(requests) + 1 =>
            IF is_connected
            THEN /\ requests'[Len(requests')] = Request(client, "pending")
                 /\ sess' = [sess EXCEPT ![client].sent = @ + 1]
            ELSE /\ requests'[Len(requests')] = Request(None, "unavailable")
                 /\ UNCHANGED <<running, client, sess, loops, stopPc, ready,
                                consumers, added, arrived, handled, errors>>
       /\ TotalSent' # TotalSent =>
            /\ is_connected
            /\ TotalSent' = TotalSent + 1
            /\ sess'[client].sent = sess[client].sent + 1]_vars

C3_Witness ==
    \E r1, r2 \in Rids : /\ requests[r1].state = "unavailable"
                         /\ requests[r2].sid # None

\* C4 as stated: is_connected is true iff the state is Connected and the
\* current session's transport is not closing.
C4_OnlyWhenConnected ==
    is_connected <=> (Connected /\ sess[client].transport # "closing")

\* C4 amended: is_connected is true iff create_connection has succeeded on
\* the current session and its transport is not closing, whether or not the
\* version check has completed; it is false before start() and while
\* create_connection is pending, true while Connected with a transport that
\* is not closing, and never true once the disconnect notification fired.
C4_WhenTransportUp ==
    /\ is_connected <=> (/\ client # None
                         /\ sess[client].made
                         /\ sess[client].transport \notin {"closing", "lost"})
    /\ loops = <<>> => ~is_connected
    /\ \A l \in Lids : (loops[l].pc = "connect" /\ loops[l].sid = client) => ~is_connected
    /\ (Connected /\ sess[client].transport # "closing") => is_connected
    /\ is_connected => sess[client].fired = 0

\* is_connected is true while the version check is pending
C4_Witness ==
    /\ is_connected
    /\ \E l \in Lids : loops[l].pc = "version" /\ loops[l].vsid = client
    /\ ~Connected

\* C5: a request is pending only on a session whose disconnect notification
\* has not fired; when the notification fires, the session's pending
\* requests fail with the connection-lost error and nothing is written to
\* any transport; a request stays on the session it was sent on, and once
\* resolved it stays resolved.
C5_LostOnDisconnect ==
    /\ [](\A r \in Rids : requests[r].state = "pending" => sess[requests[r].sid].fired = 0)
    /\ [][\A r \in Rids :
            /\ requests'[r].sid = requests[r].sid
            /\ requests[r].state # "pending" => requests'[r].state = requests[r].state
            /\ (/\ requests[r].state = "pending"
                /\ sess'[requests[r].sid].fired # sess[requests[r].sid].fired)
               => (requests'[r].state = "lost" /\ TotalSent' = TotalSent)]_vars

\* a request lost with its session, and a later session current
C5_Witness ==
    \E r \in Rids : /\ requests[r].state = "lost"
                    /\ client > requests[r].sid

\* the loop has ended an attempt without success
Failed == loops # <<>> /\ loops[1].pc \in {"connect_err", "version_err", "woken"}

\* the loop has started a further attempt, or would have within the bound
Retried == loops # <<>> /\ loops[1].pc \in {"connect", "capped"}

\* stop() has been called
StopCalled == stopPc # "idle"

C7_UnknownDropped == errors = 0

\* the pushes of topic m among a sequence of pushes
OfTopic(seq, m) ==
    LET is(v) == \E i \in DOMAIN arrived[m] : arrived[m][i] = v
    IN SelectSeq(seq, is)

\* the topic a channel belongs to
TopicOf(chan) == IF chan = "on_header" THEN HeaderTopic ELSE StatusTopic

\* a sequence of numbers is increasing
Increasing(seq) == \A i, j \in DOMAIN seq : i < j => seq[i] < seq[j]

\* C8: every consumer of a topic's channel has received exactly the pushes
\* of that topic handled since it attached, in the order the network
\* delivered them; so any two consumers agree on the order.
C8_EveryConsumerInOrder ==
    \A c \in DOMAIN consumers :
        consumers[c].chan # "on_connected" =>
            /\ consumers[c].log =
                 OfTopic(SubSeq(handled, consumers[c].at + 1, Len(handled)),
                         TopicOf(consumers[c].chan))
            /\ Increasing(consumers[c].log)

\* two consumers of one topic have both received two pushes
C8_Witness ==
    \E c, d \in DOMAIN consumers :
        /\ c # d
        /\ consumers[c].chan = consumers[d].chan
        /\ consumers[c].chan # "on_connected"
        /\ Len(consumers[c].log) = 2
        /\ consumers[d].log = consumers[c].log

\* C9: a consumer of a topic's channel never receives a push that was
\* handled before it attached.
C9_NoReplay ==
    \A c \in DOMAIN consumers :
        consumers[c].chan # "on_connected" =>
            \A i \in 1..consumers[c].at :
                \A j \in DOMAIN consumers[c].log : consumers[c].log[j] # handled[i]

\* a consumer attached after a push of its topic, and received a later one
C9_Witness ==
    \E c \in DOMAIN consumers :
        /\ consumers[c].chan # "on_connected"
        /\ OfTopic(SubSeq(handled, 1, consumers[c].at), TopicOf(consumers[c].chan)) # <<>>
        /\ consumers[c].log # <<>>

\* the entry B of the scenario
B == CHOOSE a \in 1..pool : mode[a] = "up"

\* the number of connected notifications published
NumConnected == Len(added["on_connected"])

\* C10: when the entries before B fail to connect and B succeeds, the loop
\* ends up Connected to B with is_connected true and awaits its disconnect;
\* one connected notification is published, and none before B is reached.
C10_FailoverToB ==
    /\ <>[](/\ Connected
            /\ is_connected
            /\ sess[client].server = B
            /\ loops[1].pc = "wait"
            /\ NumConnected = 1)
    /\ [](NumConnected <= 1)
    /\ [](NumConnected = 1 => (client # None /\ sess[client].server = B))

\* Connected to the second entry after the first one failed
C10_Witness ==
    /\ pool = 2 /\ B = 2
    /\ Connected /\ is_connected /\ sess[client].server = 2
    /\ NumConnected = 1

\* loop l ends an attempt in this step
EndsAttempt(l) ==
    /\ loops[l].pc \in {"connect_ok", "connect_err", "version_err", "woken"}
    /\ loops'[l].pc \in {"connect", "capped", "done"}

\* C11: when an attempt on pool entry i ends and no stop was requested, the
\* loop constructs a new session for entry (i mod n) + 1, makes it the
\* current one and connects it; a session whose disconnect notification has
\* fired is never connected again, is never written a request, and is never
\* the session of a new attempt.
C11_NextInOrder ==
    [][/\ \A l \in Lids :
             (EndsAttempt(l) /\ running) =>
                \/ loops'[l].pc = "capped"
                \/ /\ loops'[l].pc = "connect"
                   /\ loops'[l].pos = (loops[l].pos % pool) + 1
                   /\ Len(sess') = Len(sess) + 1
                   /\ loops'[l].sid = Len(sess')
                   /\ client' = Len(sess')
                   /\ sess'[Len(sess')] = ClientSession(loops'[l].pos)
       /\ \A s \in Sids :
             /\ sess[s].fired > 0 =>
                   /\ sess'[s].transport = "lost" /\ sess[s].transport = "lost"
                   /\ sess'[s].made = sess[s].made
                   /\ sess'[s].sent = sess[s].sent
             /\ (sess'[s].transport = "open" /\ sess[s].transport # "open")
                   => (sess[s].transport = "none" /\ ~sess[s].made)
       /\ \A l \in DOMAIN loops' :
             loops'[l].pc = "connect" => sess'[loops'[l].sid].fired = 0]_vars

\* the second entry's session was disconnected with a caller's request
\* pending on it, and the loop is back at the first entry with a third session
C11_Witness ==
    /\ pool = 2
    /\ running
    /\ Len(sess) = 3
    /\ sess[2].server = 2 /\ sess[2].fired = 1
    /\ sess[3].server = 1
    /\ loops[1].pc = "connect" /\ loops[1].sid = 3
    /\ \E r \in Rids : requests[r].sid = 2 /\ requests[r].state = "lost"

\* C12: once stop() was called on a running loop, the loop constructs no
\* further session, and in the end it has returned and is_connected is false.
C12_StopEndsLoop ==
    /\ [][(loops # <<>> /\ ~running) => Len(sess') = Len(sess)]_vars
    /\ (loops # <<>> /\ StopCalled)
          ~> (loops # <<>> /\ loops[1].pc = "done" /\ ~is_connected)

\* C13: a stop() that closes a session and awaits its disconnect
\* notification returns in the end, and the notification has fired by then.
C13_StopReturns ==
    /\ (stopPc = "closing") ~> (stopPc = "returned")
    /\ [][(stopPc = "closing" /\ stopPc' = "returned") =>
             (client # None /\ sess[client].fired = 1)]_vars

\* stop() has returned after closing the session of a loop that was Connected
C13_Witness ==
    /\ stopPc = "returned"
    /\ client # None /\ sess[client].fired = 1 /\ Verified(client)
    /\ loops[1].pc = "done"

\* every element of the sequence ws is an element of the sequence q
AllIn(ws, q) == \A i \in DOMAIN ws : \E j \in DOMAIN q : q[j] = ws[i]

\* C14: on_disconnected has fired at most once for a session, and has fired
\* exactly when an established transport is lost; its one firing wakes
\* every waiter, the loop and stop() alike: nobody is left waiting for a
\* notification that has fired.
C14_FiresOnce ==
    /\ [](\A s \in Sids :
             /\ sess[s].fired <= 1
             /\ sess[s].fired = 1 <=> sess[s].transport = "lost"
             /\ sess[s].fired = 1 => sess[s].made
             /\ sess[s].fired = 1 => sess[s].waiters = <<>>)
    /\ [][\A s \in Sids :
             sess'[s].fired # sess[s].fired =>
                /\ sess'[s].fired = 1
                /\ AllIn(sess[s].waiters, ready')
                /\ \A l \in LoopsOf(sess[s].waiters) :
                      loops[l].pc = "wait" => loops'[l].pc = "woken"]_vars

\* C15: an error reply to a caller's request resolves that request only: the
\* other requests, the sessions, the current session, the loop and the
\* event loop's queue stay as they are.
C15_ErrorIsLocal ==
    [][\A r \in Rids :
         (requests[r].state = "pending" /\ requests'[r].state = "error") =>
            /\ \A q \in Rids \ {r} : requests'[q] = requests[q]
            /\ requests'[r].sid = requests[r].sid
            /\ UNCHANGED <<running, client, sess, loops, stopPc, ready,
                           consumers, added, arrived, handled, errors>>]_vars

\* Connected, with one request answered by an error and another one still
\* pending on the same session
C15_Witness ==
    /\ Connected /\ is_connected
    /\ loops[1].pc = "wait"
    /\ \E r, q \in Rids : /\ requests[r].state = "error"
                           /\ requests[q].state = "pending"
                           /\ requests[q].sid = requests[r].sid
                           /\ requests[r].sid = client

\* C16: a connected notification is published one at a time, by a loop whose
\* create_connection and version check have both succeeded on the current
\* session, and only when no loop is still waiting for the disconnect
\* notification of a session that has not fired it; a failed version check
\* publishes nothing and, unless stopped, the loop goes on to a next attempt.
C16_ConnectedAfterHandshake ==
    [][/\ NumConnected' # NumConnected =>
            /\ NumConnected' = NumConnected + 1
            /\ client # None /\ sess[client].made
            /\ \E l \in Lids : /\ loops[l].pc = "version_ok"
                               /\ loops'[l].pc = "wait"
                               /\ loops[l].sid = client
                               /\ loops[l].vsid = client
                               /\ loops[l].vans = "ok"
            /\ \A s \in Sids : LoopsOf(sess[s].waiters) # {} => sess[s].fired = 1
       /\ \A l \in Lids :
            (loops[l].pc = "version_err" /\ loops'[l].pc # "version_err") =>
                /\ NumConnected' = NumConnected
                /\ loops'[l].pc \in {"connect", "capped", "done"}
                /\ running => loops'[l].pc # "done"]_vars

\* the channel a push for method m is to be published on, "" when none
ChannelOf(m) ==
    IF m = HeaderTopic THEN "on_header"
    ELSE IF m = StatusTopic THEN "on_status" ELSE ""

\* C17: a handled push for a topic is published on that topic's channel
\* only and delivered to that channel's consumers only; nothing else is
\* published on on_header or on_status; and the table is the one of the
\* constructor.
C17_RoutedByMethod ==
    /\ [](subscription_controllers =
             [m \in {HeaderTopic, StatusTopic} |-> ChannelOf(m)])
    /\ [][/\ handled' # handled =>
                LET h == Head(ready)
                    chan == ChannelOf(h.m)
                IN /\ h.k = "push"
                   /\ \A ch \in Channels :
                         added'[ch] = IF ch = chan THEN Append(added[ch], h.v)
                                      ELSE added[ch]
                   /\ \A c \in DOMAIN consumers :
                         consumers'[c].log =
                            IF consumers[c].chan = chan
                            THEN Append(consumers[c].log, h.v)
                            ELSE consumers[c].log
          /\ handled' = handled =>
                /\ added'["on_header"] = added["on_header"]
                /\ added'["on_status"] = added["on_status"]
                /\ \A c \in DOMAIN consumers : consumers'[c].log = consumers[c].log]_vars

\* a header push has reached the header consumer and not the status
\* consumer, which was attached before it
C17_Witness ==
    \E c, d \in DOMAIN consumers :
        /\ consumers[c].chan = "on_header" /\ consumers[c].log # <<>>
        /\ consumers[d].chan = "on_status" /\ consumers[d].at = 0
        /\ consumers[d].log = <<>>
        /\ added["on_status"] = <<>>

\* C18: whatever is published on on_header or on_status was pushed on the
\* session that is current and Connected when it is dispatched.
C18_OnlyCurrentSession ==
    [][(added'["on_header"] # added["on_header"]
            \/ added'["on_status"] # added["on_status"]) =>
          /\ Head(ready).k = "push"
          /\ Head(ready).id = client
          /\ Connected]_vars

\* the start() coroutines that have not returned
ActiveLoops == {l \in Lids : loops[l].pc # "done"}

\* C19: at most one start() coroutine has not returned.
C19_OneLoop == Cardinality(ActiveLoops) <= 1

====
